---- MODULE Spec2Model ----
(***************************************************************************)
(* Wireless sensor node firmware (main.c): sample the temperature sensor,  *)
(* transmit one Manchester-coded frame, sleep a jittered number of         *)
(* watchdog periods, repeat.  The main program is one thread of control    *)
(* (pc); the ADC and the watchdog timer are hardware processes that raise  *)
(* the two interrupts.  Registers are sets of the bits that are set.       *)
(***************************************************************************)
EXTENDS Integers, Sequences, FiniteSets, TLC

\* ---------------------------------------------------------------- bounds
\* Loop iterations of main explored from each initial state.
MaxCycles == 3

\* ------------------------------------------------------- program constants
NODE_ID == 3
WDT_DURATION == 2
SLEEP_TIME == 234
PreambleOnes == 4
OnesByte == 255            \* 0xFF
SyncByte == 127            \* 0x7F
TxBits == 8
LfsrSeed == 57005          \* 0xDEAD
LfsrRounds == 8
JitterMask == 7

\* sensor_node.h is not part of the sources: the packet layout and the
\* checksum are taken from the design document.
READING_TYPE_TEMP == 1
SeqNoBits == 8

\* Conversion results the converter can deliver (10-bit values).  300 has an
\* even low byte, 305 an odd one.
Samples == {300, 305}
CleanSample == CHOOSE s \in Samples : s % 2 = 0

Pins == {"PB0", "PB1", "PB2", "PB3", "PB4", "PB5", "PB6", "PB7"}
TX_PIN == "PB3"
TEMP_SENSE_POWER_PIN == "PB0"
RADIO_POWER_PIN == "PB1"
TEMP_SENSE_INPUT_DIG_PIN == "PB4"

VARIABLES
    pc,                 \* next statement of the main program
    cpu,                \* "run" or "sleep" (halted by the sleep instruction)
    SREG_I,             \* global interrupt enable
    SM,                 \* selected sleep mode
    PORTB, DDRB, DIDR0, \* port registers: sets of pins whose bit is 1
    ADMUX, ADCSRA,      \* converter control bits that are set
    ADSC, ADIF, ADCW,   \* conversion running, completion flag, result
    WDTCR, WDTIF,       \* watchdog control bits that are set, alarm flag
    adc_done,           \* the flag of ISR(ADC_vect)
    lfsr_state,
    manchester_packet,  \* manchester_union.manchester_packet
    conv_no,            \* which do_adc_conversion call of read_temperature
    result,             \* read_temperature's local
    tx_i, tb_b, tb_j, tb_ret,   \* transmit's i; transmit_byte's b, j, caller
    num_sleeps, ds_i,   \* deep_sleep's locals
    \* history (observation only; never read by the program)
    line,               \* TX level of every half-bit slot of this frame
    sent,               \* bytes handed to transmit_byte in this frame
    conv_results,       \* results delivered by the converter this cycle
    written,            \* packet fields written this cycle
    last_op,            \* last of the three operations that completed
    last_seq,           \* seq_no of the previous frame, NoFrame if none
    sleep_entries,      \* power-down entries of this deep_sleep call
    rand_calls,         \* rand_byte calls of this deep_sleep call
    rand_called,        \* rand_byte has run since power-on
    cycles,             \* loop iterations completed since Init
    rand_ret,           \* byte returned by the last rand_byte call (0: none)
    mix_inputs,         \* arguments of the mix_rand calls of this cycle
    wdt_fires           \* alarm firings since WDTIE was set in this call

hw    == <<cpu, SREG_I, SM, PORTB, DDRB, DIDR0, ADMUX, ADCSRA, ADSC, ADIF,
          ADCW, WDTCR, WDTIF>>
prog  == <<pc, adc_done, lfsr_state, manchester_packet, conv_no, result,
          tx_i, tb_b, tb_j, tb_ret, num_sleeps, ds_i>>
hist  == <<line, sent, conv_results, written, last_op, last_seq,
          sleep_entries, rand_calls, rand_called, cycles, rand_ret,
          mix_inputs, wdt_fires>>
vars  == <<hw, prog, hist>>

NoFrame == 0 - 1

\* ------------------------------------------------------------ arithmetic
Bit(s, n) == (s \div (2 ^ n)) % 2
XorBit(s, n) == IF Bit(s, n) = 1 THEN s - 2 ^ n ELSE s + 2 ^ n
Word16 == 2 ^ 16
Byte == 2 ^ 8

\* ------------------------------------------------------- packet (header)
\* Raw layout of the union: fields in declaration order, no padding, the
\* 16-bit reading low byte first.
manchester_data(p) ==
    << p.node_id, p.seq_no, p.reading_type,
       p.reading % Byte, p.reading \div Byte, p.checksum >>

PacketLen == Len(manchester_data([node_id |-> 0, seq_no |-> 0,
                 reading_type |-> 0, reading |-> 0, checksum |-> 0]))

\* A fixed deterministic function of node_id, seq_no, reading_type, reading
\* (in that order) that leaves the checksum field out of its input.
calculate_checksum(p) ==
    (p.node_id + p.seq_no + p.reading_type
       + (p.reading % Byte) + (p.reading \div Byte)) % Byte

\* ------------------------------------------------------------------ LFSR
LfsrNewBit_tap11(s) == (Bit(s, 15) + Bit(s, 13) + Bit(s, 12) + Bit(s, 11)) % 2
LfsrNewBit(s) == (Bit(s, 15) + Bit(s, 13) + Bit(s, 12) + Bit(s, 10)) % 2
LfsrShift_nofeedback(s) == (s * 2) % Word16
LfsrShift(s) == ((s * 2) % Word16) + LfsrNewBit(s)

\* n feedback steps; each intermediate state is evaluated once.
RECURSIVE LfsrShifts(_, _)
LfsrShifts(s, n) ==
    IF n = 0 THEN s
    ELSE LfsrShifts(CHOOSE t \in {LfsrShift(x) : x \in {s}} : TRUE, n - 1)

ZeroGuard_none(s) == s
ZeroGuard(s) == IF s = 0 THEN LfsrSeed ELSE s

\* rand_byte: the state it leaves and the byte it returns.
RandByteState(s) == LfsrShifts(ZeroGuard(s), LfsrRounds)
RandByteValue(s) == RandByteState(s) % Byte

\* mutants of mix_rand: only bit 3 flipped; the comparison left out.
MixRand_onebit(s, x) ==
    IF x % 2 = 1 /\ Bit(s, 15) # Bit(s, 3) THEN XorBit(s, 3) ELSE s
MixRand_always(s, x) ==
    IF x % 2 = 1 THEN XorBit(XorBit(s, 3), 15) ELSE s

MixRand(s, x) ==
    IF x % 2 = 1 /\ Bit(s, 15) # Bit(s, 3)
    THEN XorBit(XorBit(s, 3), 15)
    ELSE s

\* num_sleeps of deep_sleep for the state rand_byte is called in (uint8_t).
Jitter_wide(r) == r
Jitter(r) == r % (JitterMask + 1)
NumSleeps(s) == ((SLEEP_TIME \div WDT_DURATION) + Jitter(RandByteValue(s))) % Byte

\* --------------------------------------------------------------- Init
PowerOn ==
    /\ pc = "main_wdt"
    /\ cpu = "run"
    /\ SREG_I = FALSE
    /\ SM = "IDLE"
    /\ PORTB = {} /\ DDRB = {} /\ DIDR0 = {}
    /\ ADMUX = {} /\ ADCSRA = {}
    /\ ADSC = FALSE /\ ADIF = FALSE /\ ADCW = 0
    /\ WDTCR = {} /\ WDTIF = FALSE
    /\ adc_done = 0
    /\ lfsr_state = 0
    /\ manchester_packet = [node_id |-> 0, seq_no |-> 0, reading_type |-> 0,
                            reading |-> 0, checksum |-> 0]
    /\ conv_no = 0 /\ result = 0
    /\ tx_i = 0 /\ tb_b = 0 /\ tb_j = 0 /\ tb_ret = "none"
    /\ num_sleeps = 0 /\ ds_i = 0
    /\ line = <<>> /\ sent = <<>> /\ conv_results = <<>>
    /\ written = {}
    /\ last_op = "none"
    /\ last_seq = NoFrame
    /\ sleep_entries = 0 /\ rand_calls = 0
    /\ rand_called = FALSE
    /\ cycles = 0
    /\ rand_ret = 0
    /\ mix_inputs = <<>>
    /\ wdt_fires = 0

\* The state at the top of main's loop after k iterations in which every
\* conversion delivered CleanSample (even low byte: mix_rand changes nothing)
\* and every alarm fired while the processor slept.
\* rand_byte applied n times to state s.  The halving, and the test that
\* makes the intermediate state be evaluated, keep the evaluation shallow.
RECURSIVE RandByteTimes(_, _)
RandByteTimes(s, n) ==
    IF n = 0 THEN s
    ELSE IF n = 1 THEN RandByteState(s)
    ELSE LET mid == RandByteTimes(s, n \div 2)
         IN  IF mid >= 0 THEN RandByteTimes(mid, n - (n \div 2)) ELSE mid

CleanLfsr(k) == RandByteTimes(0, k)

WarmCycle == (2 ^ SeqNoBits) - 2

CleanPacket(k) ==
    LET p == [node_id |-> NODE_ID, seq_no |-> k % (2 ^ SeqNoBits),
              reading_type |-> READING_TYPE_TEMP, reading |-> CleanSample,
              checksum |-> 0]
    IN  [p EXCEPT !.checksum = calculate_checksum(p)]

Warm(k) ==
    /\ pc = "main_build"
    /\ cpu = "run"
    /\ SREG_I = TRUE
    /\ SM = "PWR_DOWN"
    /\ PORTB = {}
    /\ DDRB = Pins \ {TEMP_SENSE_INPUT_DIG_PIN, TX_PIN}
    /\ DIDR0 = {TEMP_SENSE_INPUT_DIG_PIN}
    /\ ADMUX = {"REFS0", "MUX1"}
    /\ ADCSRA = {"ADIE", "ADPS2", "ADPS1"}
    /\ ADSC = FALSE /\ ADIF = FALSE /\ ADCW = CleanSample
    /\ WDTCR = {"WDP2", "WDP1", "WDP0"} /\ WDTIF = FALSE
    /\ adc_done = 1
    /\ lfsr_state = CleanLfsr(k)
    /\ manchester_packet = CleanPacket(k)
    /\ conv_no = 0 /\ result = 0
    /\ tx_i = 0 /\ tb_b = 0 /\ tb_j = 0 /\ tb_ret = "none"
    /\ num_sleeps = 0 /\ ds_i = 0
    /\ line = <<>> /\ sent = <<>> /\ conv_results = <<>>
    /\ written = {}
    /\ last_op = "deep_sleep"
    /\ last_seq = k % (2 ^ SeqNoBits)
    /\ sleep_entries = 0 /\ rand_calls = 0
    /\ rand_called = TRUE
    /\ cycles = 0
    /\ rand_ret = CleanLfsr(k) % Byte
    /\ mix_inputs = <<>>
    /\ wdt_fires = 0

Init == PowerOn \/ Warm(WarmCycle)

\* ------------------------------------------------------------------ main
MainWdtSetup ==
    /\ pc = "main_wdt" /\ cpu = "run"
    /\ WDTCR' = {"WDP2", "WDP1", "WDP0"}
    /\ WDTIF' = FALSE
    /\ pc' = "main_pins"
    /\ UNCHANGED <<cpu, SREG_I, SM, PORTB, DDRB, DIDR0, ADMUX, ADCSRA, ADSC,
                   ADIF, ADCW, adc_done, lfsr_state, manchester_packet,
                   conv_no, result, tx_i, tb_b, tb_j, tb_ret, num_sleeps,
                   ds_i, line, sent, conv_results, written, last_op,
                   last_seq, sleep_entries, rand_calls, rand_called, cycles,
                   rand_ret, mix_inputs, wdt_fires>>

MainPinSetup ==
    /\ pc = "main_pins" /\ cpu = "run"
    /\ DDRB' = Pins \ {TEMP_SENSE_INPUT_DIG_PIN, TX_PIN}
    /\ DIDR0' = DIDR0 \cup {TEMP_SENSE_INPUT_DIG_PIN}
    /\ pc' = "main_sei"
    /\ UNCHANGED <<cpu, SREG_I, SM, PORTB, ADMUX, ADCSRA, ADSC, ADIF, ADCW,
                   WDTCR, WDTIF, adc_done, lfsr_state, manchester_packet,
                   conv_no, result, tx_i, tb_b, tb_j, tb_ret, num_sleeps,
                   ds_i, line, sent, conv_results, written, last_op,
                   last_seq, sleep_entries, rand_calls, rand_called, cycles,
                   rand_ret, mix_inputs, wdt_fires>>

\* mutant: interrupts are never enabled.
MainSei_off ==
    /\ pc = "main_sei" /\ cpu = "run"
    /\ SREG_I' = FALSE
    /\ pc' = "main_build"
    /\ UNCHANGED <<cpu, SM, PORTB, DDRB, DIDR0, ADMUX, ADCSRA, ADSC, ADIF,
                   ADCW, WDTCR, WDTIF, adc_done, lfsr_state,
                   manchester_packet, conv_no, result, tx_i, tb_b, tb_j,
                   tb_ret, num_sleeps, ds_i, line, sent, conv_results,
                   written, last_op, last_seq, sleep_entries, rand_calls,
                   rand_called, cycles, rand_ret, mix_inputs, wdt_fires>>

MainSei ==
    /\ pc = "main_sei" /\ cpu = "run"
    /\ SREG_I' = TRUE
    /\ pc' = "main_build"
    /\ UNCHANGED <<cpu, SM, PORTB, DDRB, DIDR0, ADMUX, ADCSRA, ADSC, ADIF,
                   ADCW, WDTCR, WDTIF, adc_done, lfsr_state,
                   manchester_packet, conv_no, result, tx_i, tb_b, tb_j,
                   tb_ret, num_sleeps, ds_i, line, sent, conv_results,
                   written, last_op, last_seq, sleep_entries, rand_calls,
                   rand_called, cycles, rand_ret, mix_inputs, wdt_fires>>

NextSeqNo_nowrap(s) == s + 1
NextSeqNo(s) == (s + 1) % (2 ^ SeqNoBits)

MainBuildPacket ==
    /\ pc = "main_build" /\ cpu = "run"
    /\ cycles < MaxCycles
    /\ manchester_packet' =
           [manchester_packet EXCEPT !.node_id = NODE_ID,
                                     !.seq_no = NextSeqNo(@),
                                     !.reading_type = READING_TYPE_TEMP]
    /\ written' = written \cup {"node_id", "seq_no", "reading_type"}
    /\ pc' = "rt_power_up"
    /\ UNCHANGED <<cpu, SREG_I, SM, PORTB, DDRB, DIDR0, ADMUX, ADCSRA, ADSC,
                   ADIF, ADCW, WDTCR, WDTIF, adc_done, lfsr_state, conv_no,
                   result, tx_i, tb_b, tb_j, tb_ret, num_sleeps, ds_i, line,
                   sent, conv_results, last_op, last_seq, sleep_entries,
                   rand_calls, rand_called, cycles, rand_ret, mix_inputs,
                   wdt_fires>>

MainStoreReading_skipTransmit ==
    /\ pc = "main_store" /\ cpu = "run"
    /\ manchester_packet' = [manchester_packet EXCEPT !.reading = result]
    /\ written' = written \cup {"reading"}
    /\ result' = 0
    /\ pc' = "ds_select"
    /\ UNCHANGED <<cpu, SREG_I, SM, PORTB, DDRB, DIDR0, ADMUX, ADCSRA, ADSC,
                   ADIF, ADCW, WDTCR, WDTIF, adc_done, lfsr_state, conv_no,
                   tx_i, tb_b, tb_j, tb_ret, num_sleeps, ds_i, line, sent,
                   conv_results, last_op, last_seq, sleep_entries,
                   rand_calls, rand_called, cycles, rand_ret, mix_inputs,
                   wdt_fires>>

MainStoreReading ==
    /\ pc = "main_store" /\ cpu = "run"
    /\ manchester_packet' = [manchester_packet EXCEPT !.reading = result]
    /\ written' = written \cup {"reading"}
    /\ result' = 0
    /\ pc' = "tx_power_up"
    /\ UNCHANGED <<cpu, SREG_I, SM, PORTB, DDRB, DIDR0, ADMUX, ADCSRA, ADSC,
                   ADIF, ADCW, WDTCR, WDTIF, adc_done, lfsr_state, conv_no,
                   tx_i, tb_b, tb_j, tb_ret, num_sleeps, ds_i, line, sent,
                   conv_results, last_op, last_seq, sleep_entries,
                   rand_calls, rand_called, cycles, rand_ret, mix_inputs,
                   wdt_fires>>

\* ------------------------------------------------------ read_temperature
RtPowerUp ==
    /\ pc = "rt_power_up" /\ cpu = "run"
    /\ PORTB' = PORTB \cup {TEMP_SENSE_POWER_PIN}
    /\ pc' = "rt_config"
    /\ UNCHANGED <<cpu, SREG_I, SM, DDRB, DIDR0, ADMUX, ADCSRA, ADSC, ADIF,
                   ADCW, WDTCR, WDTIF, adc_done, lfsr_state,
                   manchester_packet, conv_no, result, tx_i, tb_b, tb_j,
                   tb_ret, num_sleeps, ds_i, line, sent, conv_results,
                   written, last_op, last_seq, sleep_entries, rand_calls,
                   rand_called, cycles, rand_ret, mix_inputs, wdt_fires>>

RtConfigAdc ==
    /\ pc = "rt_config" /\ cpu = "run"
    /\ ADMUX' = {"REFS0", "MUX1"}
    /\ ADCSRA' = {"ADEN", "ADIE", "ADPS2", "ADPS1"}
    /\ conv_no' = 1
    /\ pc' = "adc_clear"
    /\ UNCHANGED <<cpu, SREG_I, SM, PORTB, DDRB, DIDR0, ADSC, ADIF, ADCW,
                   WDTCR, WDTIF, adc_done, lfsr_state, manchester_packet,
                   result, tx_i, tb_b, tb_j, tb_ret, num_sleeps, ds_i, line,
                   sent, conv_results, written, last_op, last_seq,
                   sleep_entries, rand_calls, rand_called, cycles, rand_ret,
                   mix_inputs, wdt_fires>>

\* mutant: adc_done is not cleared.
DoAdcClear_skip ==
    /\ pc = "adc_clear" /\ cpu = "run"
    /\ pc' = "adc_sleep"
    /\ UNCHANGED <<cpu, SREG_I, SM, PORTB, DDRB, DIDR0, ADMUX, ADCSRA, ADSC,
                   ADIF, ADCW, WDTCR, WDTIF, adc_done, lfsr_state,
                   manchester_packet, conv_no, result, tx_i, tb_b, tb_j,
                   tb_ret, num_sleeps, ds_i, line, sent, conv_results,
                   written, last_op, last_seq, sleep_entries, rand_calls,
                   rand_called, cycles, rand_ret, mix_inputs, wdt_fires>>

\* do_adc_conversion, called twice by read_temperature (conv_no = 1, 2).
DoAdcClear ==
    /\ pc = "adc_clear" /\ cpu = "run"
    /\ adc_done' = 0
    /\ pc' = "adc_sleep"
    /\ UNCHANGED <<cpu, SREG_I, SM, PORTB, DDRB, DIDR0, ADMUX, ADCSRA, ADSC,
                   ADIF, ADCW, WDTCR, WDTIF, lfsr_state, manchester_packet,
                   conv_no, result, tx_i, tb_b, tb_j, tb_ret, num_sleeps,
                   ds_i, line, sent, conv_results, written, last_op,
                   last_seq, sleep_entries, rand_calls, rand_called, cycles,
                   rand_ret, mix_inputs, wdt_fires>>

\* sleep_mode() in ADC noise-reduction mode: the processor halts and the
\* enabled converter starts a conversion.
DoAdcSleep ==
    /\ pc = "adc_sleep" /\ cpu = "run"
    /\ SM' = "ADC"
    /\ cpu' = "sleep"
    /\ ADSC' = (ADSC \/ "ADEN" \in ADCSRA)
    /\ pc' = "adc_wait"
    /\ UNCHANGED <<SREG_I, PORTB, DDRB, DIDR0, ADMUX, ADCSRA, ADIF, ADCW,
                   WDTCR, WDTIF, adc_done, lfsr_state, manchester_packet,
                   conv_no, result, tx_i, tb_b, tb_j, tb_ret, num_sleeps,
                   ds_i, line, sent, conv_results, written, last_op,
                   last_seq, sleep_entries, rand_calls, rand_called, cycles,
                   rand_ret, mix_inputs, wdt_fires>>

\* mutant: the wait sleeps again when the flag is not yet set.
DoAdcWait_resleep ==
    /\ pc = "adc_wait" /\ cpu = "run"
    /\ pc' = IF adc_done # 0 THEN "adc_mix" ELSE pc
    /\ cpu' = IF adc_done # 0 THEN cpu ELSE "sleep"
    /\ UNCHANGED <<SREG_I, SM, PORTB, DDRB, DIDR0, ADMUX, ADCSRA, ADSC, ADIF,
                   ADCW, WDTCR, WDTIF, adc_done, lfsr_state,
                   manchester_packet, conv_no, result, tx_i, tb_b, tb_j,
                   tb_ret, num_sleeps, ds_i, line, sent, conv_results,
                   written, last_op, last_seq, sleep_entries, rand_calls,
                   rand_called, cycles, rand_ret, mix_inputs, wdt_fires>>

\* while (!adc_done) {}: leaves the loop once the flag is set.
DoAdcWait ==
    /\ pc = "adc_wait" /\ cpu = "run"
    /\ adc_done # 0
    /\ pc' = "adc_mix"
    /\ UNCHANGED <<cpu, SREG_I, SM, PORTB, DDRB, DIDR0, ADMUX, ADCSRA, ADSC,
                   ADIF, ADCW, WDTCR, WDTIF, adc_done, lfsr_state,
                   manchester_packet, conv_no, result, tx_i, tb_b, tb_j,
                   tb_ret, num_sleeps, ds_i, line, sent, conv_results,
                   written, last_op, last_seq, sleep_entries, rand_calls,
                   rand_called, cycles, rand_ret, mix_inputs, wdt_fires>>

\* mutant: mix_rand is given the high byte of the result.
DoAdcMix_high ==
    /\ pc = "adc_mix" /\ cpu = "run"
    /\ lfsr_state' = MixRand(lfsr_state, ADCW \div Byte)
    /\ mix_inputs' = Append(mix_inputs, ADCW \div Byte)
    /\ IF conv_no = 1
       THEN conv_no' = 2 /\ pc' = "adc_clear"
       ELSE conv_no' = 0 /\ pc' = "rt_result"
    /\ UNCHANGED <<cpu, SREG_I, SM, PORTB, DDRB, DIDR0, ADMUX, ADCSRA, ADSC,
                   ADIF, ADCW, WDTCR, WDTIF, adc_done, manchester_packet,
                   result, tx_i, tb_b, tb_j, tb_ret, num_sleeps, ds_i, line,
                   sent, conv_results, written, last_op, last_seq,
                   sleep_entries, rand_calls, rand_called, cycles, rand_ret,
                   wdt_fires>>

DoAdcMix_single ==
    /\ pc = "adc_mix" /\ cpu = "run"
    /\ lfsr_state' = MixRand(lfsr_state, ADCW % Byte)
    /\ mix_inputs' = Append(mix_inputs, ADCW % Byte)
    /\ conv_no' = 0 /\ pc' = "rt_result"
    /\ UNCHANGED <<cpu, SREG_I, SM, PORTB, DDRB, DIDR0, ADMUX, ADCSRA, ADSC,
                   ADIF, ADCW, WDTCR, WDTIF, adc_done, manchester_packet,
                   result, tx_i, tb_b, tb_j, tb_ret, num_sleeps, ds_i, line,
                   sent, conv_results, written, last_op, last_seq,
                   sleep_entries, rand_calls, rand_called, cycles, rand_ret,
                   wdt_fires>>

DoAdcMix ==
    /\ pc = "adc_mix" /\ cpu = "run"
    /\ lfsr_state' = MixRand(lfsr_state, ADCW % Byte)
    /\ mix_inputs' = Append(mix_inputs, ADCW % Byte)
    /\ IF conv_no = 1
       THEN conv_no' = 2 /\ pc' = "adc_clear"
       ELSE conv_no' = 0 /\ pc' = "rt_result"
    /\ UNCHANGED <<cpu, SREG_I, SM, PORTB, DDRB, DIDR0, ADMUX, ADCSRA, ADSC,
                   ADIF, ADCW, WDTCR, WDTIF, adc_done, manchester_packet,
                   result, tx_i, tb_b, tb_j, tb_ret, num_sleeps, ds_i, line,
                   sent, conv_results, written, last_op, last_seq,
                   sleep_entries, rand_calls, rand_called, cycles, rand_ret,
                   wdt_fires>>

RtReadResult ==
    /\ pc = "rt_result" /\ cpu = "run"
    /\ result' = ADCW
    /\ pc' = "rt_disable"
    /\ UNCHANGED <<cpu, SREG_I, SM, PORTB, DDRB, DIDR0, ADMUX, ADCSRA, ADSC,
                   ADIF, ADCW, WDTCR, WDTIF, adc_done, lfsr_state,
                   manchester_packet, conv_no, tx_i, tb_b, tb_j, tb_ret,
                   num_sleeps, ds_i, line, sent, conv_results, written,
                   last_op, last_seq, sleep_entries, rand_calls, rand_called,
                   cycles, rand_ret, mix_inputs, wdt_fires>>

\* ADCSRA &= ~_BV(ADEN): the read-modify-write writes a set ADIF back as 1,
\* which clears it.
RtDisableAdc ==
    /\ pc = "rt_disable" /\ cpu = "run"
    /\ ADCSRA' = ADCSRA \ {"ADEN"}
    /\ ADIF' = FALSE
    /\ pc' = "rt_power_down"
    /\ UNCHANGED <<cpu, SREG_I, SM, PORTB, DDRB, DIDR0, ADMUX, ADSC, ADCW,
                   WDTCR, WDTIF, adc_done, lfsr_state, manchester_packet,
                   conv_no, result, tx_i, tb_b, tb_j, tb_ret, num_sleeps,
                   ds_i, line, sent, conv_results, written, last_op,
                   last_seq, sleep_entries, rand_calls, rand_called, cycles,
                   rand_ret, mix_inputs, wdt_fires>>

RtPowerDown ==
    /\ pc = "rt_power_down" /\ cpu = "run"
    /\ PORTB' = PORTB \ {TEMP_SENSE_POWER_PIN}
    /\ last_op' = "read_temperature"
    /\ pc' = "main_store"
    /\ UNCHANGED <<cpu, SREG_I, SM, DDRB, DIDR0, ADMUX, ADCSRA, ADSC, ADIF,
                   ADCW, WDTCR, WDTIF, adc_done, lfsr_state,
                   manchester_packet, conv_no, result, tx_i, tb_b, tb_j,
                   tb_ret, num_sleeps, ds_i, line, sent, conv_results,
                   written, last_seq, sleep_entries, rand_calls, rand_called,
                   cycles, rand_ret, mix_inputs, wdt_fires>>

\* ------------------------------------------------- converter and its ISR
\* A running conversion completes with some result.
AdcComplete ==
    /\ ADSC
    /\ \E v \in Samples :
          /\ ADCW' = v
          /\ conv_results' = Append(conv_results, v)
    /\ ADSC' = FALSE
    /\ ADIF' = TRUE
    /\ UNCHANGED <<pc, cpu, SREG_I, SM, PORTB, DDRB, DIDR0, ADMUX, ADCSRA,
                   WDTCR, WDTIF, adc_done, lfsr_state, manchester_packet,
                   conv_no, result, tx_i, tb_b, tb_j, tb_ret, num_sleeps,
                   ds_i, line, sent, written, last_op, last_seq,
                   sleep_entries, rand_calls, rand_called, cycles, rand_ret,
                   mix_inputs, wdt_fires>>

\* ISR(ADC_vect): taken when the flag is pending and enabled; wakes the
\* processor; the hardware clears the flag on entry.
AdcISR ==
    /\ ADIF /\ "ADIE" \in ADCSRA /\ SREG_I
    /\ adc_done' = 1
    /\ ADIF' = FALSE
    /\ cpu' = "run"
    /\ UNCHANGED <<pc, SREG_I, SM, PORTB, DDRB, DIDR0, ADMUX, ADCSRA, ADSC,
                   ADCW, WDTCR, WDTIF, lfsr_state, manchester_packet,
                   conv_no, result, tx_i, tb_b, tb_j, tb_ret, num_sleeps,
                   ds_i, line, sent, conv_results, written, last_op,
                   last_seq, sleep_entries, rand_calls, rand_called, cycles,
                   rand_ret, mix_inputs, wdt_fires>>

\* --------------------------------------------------------- transmit_byte
Toggle(P, pin) == IF pin \in P THEN P \ {pin} ELSE P \cup {pin}
Level(P) == IF TX_PIN \in P THEN 1 ELSE 0

\* The TX_PORT level of the first half of a bit.
FirstHalf_inverted(P, bit) == IF bit = 1 THEN P \ {TX_PIN} ELSE P \cup {TX_PIN}
FirstHalf(P, bit) == IF bit = 1 THEN P \cup {TX_PIN} ELSE P \ {TX_PIN}

\* if (b & 1) ... else ...; _delay_ms(half bit)
TransmitByteFirstHalf ==
    /\ pc = "tb_first" /\ cpu = "run"
    /\ PORTB' = FirstHalf(PORTB, tb_b % 2)
    /\ line' = Append(line, Level(PORTB'))
    /\ pc' = "tb_second"
    /\ UNCHANGED <<cpu, SREG_I, SM, DDRB, DIDR0, ADMUX, ADCSRA, ADSC, ADIF,
                   ADCW, WDTCR, WDTIF, adc_done, lfsr_state,
                   manchester_packet, conv_no, result, tx_i, tb_b, tb_j,
                   tb_ret, num_sleeps, ds_i, sent, conv_results, written,
                   last_op, last_seq, sleep_entries, rand_calls, rand_called,
                   cycles, rand_ret, mix_inputs, wdt_fires>>

\* TX_PORT ^= TX_PIN; _delay_ms(half bit); b >>= 1; j++ and the loop test.
TransmitByteSecondHalf ==
    /\ pc = "tb_second" /\ cpu = "run"
    /\ PORTB' = Toggle(PORTB, TX_PIN)
    /\ line' = Append(line, Level(PORTB'))
    /\ IF tb_j + 1 < TxBits
       THEN /\ tb_b' = tb_b \div 2
            /\ tb_j' = tb_j + 1
            /\ pc' = "tb_first"
            /\ tb_ret' = tb_ret
       ELSE /\ tb_b' = 0
            /\ tb_j' = 0
            /\ pc' = tb_ret
            /\ tb_ret' = "none"
    /\ UNCHANGED <<cpu, SREG_I, SM, DDRB, DIDR0, ADMUX, ADCSRA, ADSC, ADIF,
                   ADCW, WDTCR, WDTIF, adc_done, lfsr_state,
                   manchester_packet, conv_no, result, tx_i, num_sleeps,
                   ds_i, sent, conv_results, written, last_op, last_seq,
                   sleep_entries, rand_calls, rand_called, cycles, rand_ret,
                   mix_inputs, wdt_fires>>

\* The call transmit_byte(b) from transmit, returning to ret.
CallTransmitByte(b, ret) ==
    /\ tb_b' = b
    /\ tb_j' = 0
    /\ tb_ret' = ret
    /\ sent' = Append(sent, b)
    /\ pc' = "tb_first"

\* -------------------------------------------------------------- transmit
\* mutant: the TX line is not made an output.
TxPowerUp_noDrive ==
    /\ pc = "tx_power_up" /\ cpu = "run"
    /\ PORTB' = PORTB \cup {RADIO_POWER_PIN}
    /\ pc' = "tx_checksum"
    /\ UNCHANGED <<cpu, SREG_I, SM, DDRB, DIDR0, ADMUX, ADCSRA, ADSC, ADIF,
                   ADCW, WDTCR, WDTIF, adc_done, lfsr_state,
                   manchester_packet, conv_no, result, tx_i, tb_b, tb_j,
                   tb_ret, num_sleeps, ds_i, line, sent, conv_results,
                   written, last_op, last_seq, sleep_entries, rand_calls,
                   rand_called, cycles, rand_ret, mix_inputs, wdt_fires>>

TxPowerUp ==
    /\ pc = "tx_power_up" /\ cpu = "run"
    /\ PORTB' = PORTB \cup {RADIO_POWER_PIN}
    /\ DDRB' = DDRB \cup {TX_PIN}
    /\ pc' = "tx_checksum"
    /\ UNCHANGED <<cpu, SREG_I, SM, DIDR0, ADMUX, ADCSRA, ADSC, ADIF, ADCW,
                   WDTCR, WDTIF, adc_done, lfsr_state, manchester_packet,
                   conv_no, result, tx_i, tb_b, tb_j, tb_ret, num_sleeps,
                   ds_i, line, sent, conv_results, written, last_op,
                   last_seq, sleep_entries, rand_calls, rand_called, cycles,
                   rand_ret, mix_inputs, wdt_fires>>

TxChecksum_stale ==
    /\ pc = "tx_checksum" /\ cpu = "run"
    /\ tx_i' = PreambleOnes
    /\ pc' = "tx_preamble"
    /\ UNCHANGED <<cpu, SREG_I, SM, PORTB, DDRB, DIDR0, ADMUX, ADCSRA, ADSC,
                   ADIF, ADCW, WDTCR, WDTIF, adc_done, lfsr_state,
                   manchester_packet, conv_no, result, tb_b, tb_j, tb_ret,
                   num_sleeps, ds_i, line, sent, conv_results, written,
                   last_op, last_seq, sleep_entries, rand_calls, rand_called,
                   cycles, rand_ret, mix_inputs, wdt_fires>>

TxChecksum ==
    /\ pc = "tx_checksum" /\ cpu = "run"
    /\ manchester_packet' =
           [manchester_packet EXCEPT
               !.checksum = calculate_checksum(manchester_packet)]
    /\ written' = written \cup {"checksum"}
    /\ tx_i' = PreambleOnes
    /\ pc' = "tx_preamble"
    /\ UNCHANGED <<cpu, SREG_I, SM, PORTB, DDRB, DIDR0, ADMUX, ADCSRA, ADSC,
                   ADIF, ADCW, WDTCR, WDTIF, adc_done, lfsr_state, conv_no,
                   result, tb_b, tb_j, tb_ret, num_sleeps, ds_i, line, sent,
                   conv_results, last_op, last_seq, sleep_entries,
                   rand_calls, rand_called, cycles, rand_ret, mix_inputs,
                   wdt_fires>>

TxPreambleByte ==
    /\ pc = "tx_preamble" /\ cpu = "run"
    /\ tx_i > 0
    /\ CallTransmitByte(OnesByte, "tx_preamble_step")
    /\ UNCHANGED <<cpu, SREG_I, SM, PORTB, DDRB, DIDR0, ADMUX, ADCSRA, ADSC,
                   ADIF, ADCW, WDTCR, WDTIF, adc_done, lfsr_state,
                   manchester_packet, conv_no, result, tx_i, num_sleeps,
                   ds_i, line, conv_results, written, last_op, last_seq,
                   sleep_entries, rand_calls, rand_called, cycles, rand_ret,
                   mix_inputs, wdt_fires>>

TxPreambleStep ==
    /\ pc = "tx_preamble_step" /\ cpu = "run"
    /\ tx_i' = tx_i - 1
    /\ pc' = "tx_preamble"
    /\ UNCHANGED <<cpu, SREG_I, SM, PORTB, DDRB, DIDR0, ADMUX, ADCSRA, ADSC,
                   ADIF, ADCW, WDTCR, WDTIF, adc_done, lfsr_state,
                   manchester_packet, conv_no, result, tb_b, tb_j, tb_ret,
                   num_sleeps, ds_i, line, sent, conv_results, written,
                   last_op, last_seq, sleep_entries, rand_calls, rand_called,
                   cycles, rand_ret, mix_inputs, wdt_fires>>

TxSyncByte ==
    /\ pc = "tx_preamble" /\ cpu = "run"
    /\ ~(tx_i > 0)
    /\ CallTransmitByte(SyncByte, "tx_data_init")
    /\ UNCHANGED <<cpu, SREG_I, SM, PORTB, DDRB, DIDR0, ADMUX, ADCSRA, ADSC,
                   ADIF, ADCW, WDTCR, WDTIF, adc_done, lfsr_state,
                   manchester_packet, conv_no, result, tx_i, num_sleeps,
                   ds_i, line, conv_results, written, last_op, last_seq,
                   sleep_entries, rand_calls, rand_called, cycles, rand_ret,
                   mix_inputs, wdt_fires>>

TxDataInit ==
    /\ pc = "tx_data_init" /\ cpu = "run"
    /\ tx_i' = 0
    /\ pc' = "tx_data"
    /\ UNCHANGED <<cpu, SREG_I, SM, PORTB, DDRB, DIDR0, ADMUX, ADCSRA, ADSC,
                   ADIF, ADCW, WDTCR, WDTIF, adc_done, lfsr_state,
                   manchester_packet, conv_no, result, tb_b, tb_j, tb_ret,
                   num_sleeps, ds_i, line, sent, conv_results, written,
                   last_op, last_seq, sleep_entries, rand_calls, rand_called,
                   cycles, rand_ret, mix_inputs, wdt_fires>>

TxDataByte ==
    /\ pc = "tx_data" /\ cpu = "run"
    /\ tx_i < PacketLen
    /\ CallTransmitByte(manchester_data(manchester_packet)[tx_i + 1],
                        "tx_data_step")
    /\ UNCHANGED <<cpu, SREG_I, SM, PORTB, DDRB, DIDR0, ADMUX, ADCSRA, ADSC,
                   ADIF, ADCW, WDTCR, WDTIF, adc_done, lfsr_state,
                   manchester_packet, conv_no, result, tx_i, num_sleeps,
                   ds_i, line, conv_results, written, last_op, last_seq,
                   sleep_entries, rand_calls, rand_called, cycles, rand_ret,
                   mix_inputs, wdt_fires>>

TxDataStep ==
    /\ pc = "tx_data_step" /\ cpu = "run"
    /\ tx_i' = tx_i + 1
    /\ pc' = "tx_data"
    /\ UNCHANGED <<cpu, SREG_I, SM, PORTB, DDRB, DIDR0, ADMUX, ADCSRA, ADSC,
                   ADIF, ADCW, WDTCR, WDTIF, adc_done, lfsr_state,
                   manchester_packet, conv_no, result, tb_b, tb_j, tb_ret,
                   num_sleeps, ds_i, line, sent, conv_results, written,
                   last_op, last_seq, sleep_entries, rand_calls, rand_called,
                   cycles, rand_ret, mix_inputs, wdt_fires>>

FinalTransition_none(P) == P
FinalTransition(P) == Toggle(P, TX_PIN)

\* After the data loop: one more toggle and half-bit delay.
TxFinalToggle ==
    /\ pc = "tx_data" /\ cpu = "run"
    /\ ~(tx_i < PacketLen)
    /\ PORTB' = FinalTransition(PORTB)
    /\ line' = Append(line, Level(PORTB'))
    /\ tx_i' = 0
    /\ pc' = "tx_radio_off"
    /\ UNCHANGED <<cpu, SREG_I, SM, DDRB, DIDR0, ADMUX, ADCSRA, ADSC, ADIF,
                   ADCW, WDTCR, WDTIF, adc_done, lfsr_state,
                   manchester_packet, conv_no, result, tb_b, tb_j, tb_ret,
                   num_sleeps, ds_i, sent, conv_results, written, last_op,
                   last_seq, sleep_entries, rand_calls, rand_called, cycles,
                   rand_ret, mix_inputs, wdt_fires>>

RadioOff_left(P) == P
RadioOff(P) == P \ {RADIO_POWER_PIN}

TxRadioOff ==
    /\ pc = "tx_radio_off" /\ cpu = "run"
    /\ PORTB' = RadioOff(PORTB)
    /\ pc' = "tx_tristate"
    /\ UNCHANGED <<cpu, SREG_I, SM, DDRB, DIDR0, ADMUX, ADCSRA, ADSC, ADIF,
                   ADCW, WDTCR, WDTIF, adc_done, lfsr_state,
                   manchester_packet, conv_no, result, tx_i, tb_b, tb_j,
                   tb_ret, num_sleeps, ds_i, line, sent, conv_results,
                   written, last_op, last_seq, sleep_entries, rand_calls,
                   rand_called, cycles, rand_ret, mix_inputs, wdt_fires>>

\* The seq_no byte of the frame in sent (second packet byte).
FrameSeq == sent[PreambleOnes + 1 + 2]

TxTristate ==
    /\ pc = "tx_tristate" /\ cpu = "run"
    /\ DDRB' = DDRB \ {TX_PIN}
    /\ PORTB' = PORTB \ {TX_PIN}
    /\ last_op' = "transmit"
    /\ last_seq' = FrameSeq
    /\ line' = <<>>
    /\ sent' = <<>>
    /\ pc' = "ds_select"
    /\ UNCHANGED <<cpu, SREG_I, SM, DIDR0, ADMUX, ADCSRA, ADSC, ADIF, ADCW,
                   WDTCR, WDTIF, adc_done, lfsr_state, manchester_packet,
                   conv_no, result, tx_i, tb_b, tb_j, tb_ret, num_sleeps,
                   ds_i, conv_results, written, sleep_entries, rand_calls,
                   rand_called, cycles, rand_ret, mix_inputs, wdt_fires>>

\* ------------------------------------------------------------ deep_sleep
\* set_sleep_mode(SLEEP_MODE_PWR_DOWN); wdt_reset() restarts the period of
\* the (stopped) timer.
DsSelectMode ==
    /\ pc = "ds_select" /\ cpu = "run"
    /\ SM' = "PWR_DOWN"
    /\ pc' = "ds_enable"
    /\ UNCHANGED <<cpu, SREG_I, PORTB, DDRB, DIDR0, ADMUX, ADCSRA, ADSC,
                   ADIF, ADCW, WDTCR, WDTIF, adc_done, lfsr_state,
                   manchester_packet, conv_no, result, tx_i, tb_b, tb_j,
                   tb_ret, num_sleeps, ds_i, line, sent, conv_results,
                   written, last_op, last_seq, sleep_entries, rand_calls,
                   rand_called, cycles, rand_ret, mix_inputs, wdt_fires>>

\* WDTCR |= _BV(WDTIE): the read-modify-write writes a set WDTIF back as 1,
\* which clears it.
DsEnableWdtie ==
    /\ pc = "ds_enable" /\ cpu = "run"
    /\ WDTCR' = WDTCR \cup {"WDTIE"}
    /\ WDTIF' = FALSE
    /\ wdt_fires' = 0
    /\ pc' = "ds_rand"
    /\ UNCHANGED <<cpu, SREG_I, SM, PORTB, DDRB, DIDR0, ADMUX, ADCSRA, ADSC,
                   ADIF, ADCW, adc_done, lfsr_state, manchester_packet,
                   conv_no, result, tx_i, tb_b, tb_j, tb_ret, num_sleeps,
                   ds_i, line, sent, conv_results, written, last_op,
                   last_seq, sleep_entries, rand_calls, rand_called, cycles,
                   rand_ret, mix_inputs>>

DsComputeSleeps ==
    /\ pc = "ds_rand" /\ cpu = "run"
    /\ lfsr_state' = RandByteState(lfsr_state)
    /\ num_sleeps' = NumSleeps(lfsr_state)
    /\ rand_ret' = RandByteValue(lfsr_state)
    /\ ds_i' = 0
    /\ rand_calls' = rand_calls + 1
    /\ rand_called' = TRUE
    /\ pc' = IF 0 < num_sleeps' THEN "ds_sleep" ELSE "ds_disable"
    /\ UNCHANGED <<cpu, SREG_I, SM, PORTB, DDRB, DIDR0, ADMUX, ADCSRA, ADSC,
                   ADIF, ADCW, WDTCR, WDTIF, adc_done, manchester_packet,
                   conv_no, result, tx_i, tb_b, tb_j, tb_ret, line, sent,
                   conv_results, written, last_op, last_seq, sleep_entries,
                   cycles, mix_inputs, wdt_fires>>

\* mutant: the sleep instruction does not halt the processor.
DsSleep_noHalt ==
    /\ pc = "ds_sleep" /\ cpu = "run"
    /\ sleep_entries' = sleep_entries + 1
    /\ pc' = "ds_woken"
    /\ UNCHANGED <<cpu, SREG_I, SM, PORTB, DDRB, DIDR0, ADMUX, ADCSRA, ADSC,
                   ADIF, ADCW, WDTCR, WDTIF, adc_done, lfsr_state,
                   manchester_packet, conv_no, result, tx_i, tb_b, tb_j,
                   tb_ret, num_sleeps, ds_i, line, sent, conv_results,
                   written, last_op, last_seq, rand_calls, rand_called,
                   cycles, rand_ret, mix_inputs, wdt_fires>>

\* sleep_mode() in power-down mode: halts until an interrupt is taken.
DsSleep ==
    /\ pc = "ds_sleep" /\ cpu = "run"
    /\ cpu' = "sleep"
    /\ sleep_entries' = sleep_entries + 1
    /\ pc' = "ds_woken"
    /\ UNCHANGED <<SREG_I, SM, PORTB, DDRB, DIDR0, ADMUX, ADCSRA, ADSC, ADIF,
                   ADCW, WDTCR, WDTIF, adc_done, lfsr_state,
                   manchester_packet, conv_no, result, tx_i, tb_b, tb_j,
                   tb_ret, num_sleeps, ds_i, line, sent, conv_results,
                   written, last_op, last_seq, rand_calls, rand_called,
                   cycles, rand_ret, mix_inputs, wdt_fires>>

\* ++i and the loop test.
DsLoopStep ==
    /\ pc = "ds_woken" /\ cpu = "run"
    /\ ds_i' = (ds_i + 1) % Byte
    /\ pc' = IF ds_i' < num_sleeps THEN "ds_sleep" ELSE "ds_disable"
    /\ UNCHANGED <<cpu, SREG_I, SM, PORTB, DDRB, DIDR0, ADMUX, ADCSRA, ADSC,
                   ADIF, ADCW, WDTCR, WDTIF, adc_done, lfsr_state,
                   manchester_packet, conv_no, result, tx_i, tb_b, tb_j,
                   tb_ret, num_sleeps, line, sent, conv_results, written,
                   last_op, last_seq, sleep_entries, rand_calls, rand_called,
                   cycles, rand_ret, mix_inputs, wdt_fires>>

WdtieOff_left(W) == W
WdtieOff(W) == W \ {"WDTIE"}

DsDisableWdtie ==
    /\ pc = "ds_disable" /\ cpu = "run"
    /\ WDTCR' = WdtieOff(WDTCR)
    /\ WDTIF' = FALSE
    /\ num_sleeps' = 0
    /\ ds_i' = 0
    /\ sleep_entries' = 0
    /\ rand_calls' = 0
    /\ conv_results' = <<>>
    /\ written' = {}
    /\ mix_inputs' = <<>>
    /\ wdt_fires' = 0
    /\ last_op' = "deep_sleep"
    /\ cycles' = cycles + 1
    /\ pc' = "main_build"
    /\ UNCHANGED <<cpu, SREG_I, SM, PORTB, DDRB, DIDR0, ADMUX, ADCSRA, ADSC,
                   ADIF, ADCW, adc_done, lfsr_state, manchester_packet,
                   conv_no, result, tx_i, tb_b, tb_j, tb_ret, line, sent,
                   last_seq, rand_called, rand_ret>>

\* --------------------------------------------- watchdog timer and its ISR
\* The timer runs while its interrupt is enabled; a period ends.  A period
\* (WDT_DURATION seconds, restarted by wdt_reset and by each firing) is far
\* longer than any stretch the program runs between two sleep instructions,
\* so a period ends only while the processor is halted.
WdtFire ==
    /\ "WDTIE" \in WDTCR
    /\ cpu = "sleep"
    /\ ~WDTIF
    /\ WDTIF' = TRUE
    /\ wdt_fires' = wdt_fires + 1
    /\ UNCHANGED <<pc, cpu, SREG_I, SM, PORTB, DDRB, DIDR0, ADMUX, ADCSRA,
                   ADSC, ADIF, ADCW, WDTCR, adc_done, lfsr_state,
                   manchester_packet, conv_no, result, tx_i, tb_b, tb_j,
                   tb_ret, num_sleeps, ds_i, line, sent, conv_results,
                   written, last_op, last_seq, sleep_entries, rand_calls,
                   rand_called, cycles, rand_ret, mix_inputs>>

\* EMPTY_INTERRUPT(WDT_vect): only wakes the processor; the hardware clears
\* the flag on entry.
WdtISR ==
    /\ WDTIF /\ "WDTIE" \in WDTCR /\ SREG_I
    /\ WDTIF' = FALSE
    /\ cpu' = "run"
    /\ UNCHANGED <<pc, SREG_I, SM, PORTB, DDRB, DIDR0, ADMUX, ADCSRA, ADSC,
                   ADIF, ADCW, WDTCR, adc_done, lfsr_state,
                   manchester_packet, conv_no, result, tx_i, tb_b, tb_j,
                   tb_ret, num_sleeps, ds_i, line, sent, conv_results,
                   written, last_op, last_seq, sleep_entries, rand_calls,
                   rand_called, cycles, rand_ret, mix_inputs, wdt_fires>>

\* ------------------------------------------------------- specifications
Next ==
    \/ MainWdtSetup \/ MainPinSetup \/ MainSei
    \/ MainBuildPacket \/ MainStoreReading
    \/ RtPowerUp \/ RtConfigAdc
    \/ DoAdcClear \/ DoAdcSleep \/ DoAdcWait \/ DoAdcMix
    \/ RtReadResult \/ RtDisableAdc \/ RtPowerDown
    \/ AdcComplete \/ AdcISR
    \/ TxPowerUp \/ TxChecksum
    \/ TxPreambleByte \/ TxPreambleStep \/ TxSyncByte
    \/ TxDataInit \/ TxDataByte \/ TxDataStep
    \/ TransmitByteFirstHalf \/ TransmitByteSecondHalf
    \/ TxFinalToggle \/ TxRadioOff \/ TxTristate
    \/ DsSelectMode \/ DsEnableWdtie \/ DsComputeSleeps
    \/ DsSleep \/ DsLoopStep \/ DsDisableWdtie
    \/ WdtFire \/ WdtISR

Spec == Init /\ [][Next]_vars

\* The steps of the one thread of control.
MainProgram ==
    \/ MainWdtSetup \/ MainPinSetup \/ MainSei
    \/ MainBuildPacket \/ MainStoreReading
    \/ RtPowerUp \/ RtConfigAdc
    \/ DoAdcClear \/ DoAdcSleep \/ DoAdcWait \/ DoAdcMix
    \/ RtReadResult \/ RtDisableAdc \/ RtPowerDown
    \/ TxPowerUp \/ TxChecksum
    \/ TxPreambleByte \/ TxPreambleStep \/ TxSyncByte
    \/ TxDataInit \/ TxDataByte \/ TxDataStep
    \/ TransmitByteFirstHalf \/ TransmitByteSecondHalf
    \/ TxFinalToggle \/ TxRadioOff \/ TxTristate
    \/ DsSelectMode \/ DsEnableWdtie \/ DsComputeSleeps
    \/ DsSleep \/ DsLoopStep \/ DsDisableWdtie

\* A running processor executes its next instruction; a started conversion
\* completes; the armed alarm fires; a pending enabled interrupt is taken.
Fairness ==
    /\ WF_vars(MainProgram)
    /\ WF_vars(AdcComplete) /\ WF_vars(AdcISR)
    /\ WF_vars(WdtFire) /\ WF_vars(WdtISR)

SpecFair == Init /\ [][Next]_vars /\ Fairness

\* The program with one more wake-up source: an interrupt other than
\* conversion-complete, with an empty handler, wakes the processor out of
\* the sleep of do_adc_conversion ("Just in case we were woken by a
\* different interrupt").
OtherWake ==
    /\ pc = "adc_wait" /\ cpu = "sleep"
    /\ SREG_I
    /\ cpu' = "run"
    /\ UNCHANGED <<pc, SREG_I, SM, PORTB, DDRB, DIDR0, ADMUX, ADCSRA, ADSC,
                   ADIF, ADCW, WDTCR, WDTIF, adc_done, lfsr_state,
                   manchester_packet, conv_no, result, tx_i, tb_b, tb_j,
                   tb_ret, num_sleeps, ds_i, line, sent, conv_results,
                   written, last_op, last_seq, sleep_entries, rand_calls,
                   rand_called, cycles, rand_ret, mix_inputs, wdt_fires>>

NextWake == Next \/ OtherWake

SpecWake == Init /\ [][NextWake]_vars

\* transmit_byte on its own: called with any byte b while the transmitter is
\* powered and the line driven, returning to "tb_done".
InitByte ==
    /\ pc = "tb_first"
    /\ cpu = "run"
    /\ SREG_I = TRUE
    /\ SM = "PWR_DOWN"
    /\ PORTB = {RADIO_POWER_PIN}
    /\ DDRB = (Pins \ {TEMP_SENSE_INPUT_DIG_PIN, TX_PIN}) \cup {TX_PIN}
    /\ DIDR0 = {TEMP_SENSE_INPUT_DIG_PIN}
    /\ ADMUX = {"REFS0", "MUX1"}
    /\ ADCSRA = {"ADIE", "ADPS2", "ADPS1"}
    /\ ADSC = FALSE /\ ADIF = FALSE /\ ADCW = CleanSample
    /\ WDTCR = {"WDP2", "WDP1", "WDP0"} /\ WDTIF = FALSE
    /\ adc_done = 1
    /\ lfsr_state = CleanLfsr(1)
    /\ manchester_packet = CleanPacket(1)
    /\ conv_no = 0 /\ result = 0
    /\ tx_i = 0
    /\ tb_b \in 0 .. (Byte - 1)
    /\ tb_j = 0
    /\ tb_ret = "tb_done"
    /\ num_sleeps = 0 /\ ds_i = 0
    /\ line = <<>>
    /\ sent = <<tb_b>>
    /\ conv_results = <<>>
    /\ written = {}
    /\ last_op = "read_temperature"
    /\ last_seq = NoFrame
    /\ sleep_entries = 0 /\ rand_calls = 0
    /\ rand_called = TRUE
    /\ cycles = 0
    /\ rand_ret = CleanLfsr(1) % Byte
    /\ mix_inputs = <<CleanSample % Byte, CleanSample % Byte>>
    /\ wdt_fires = 0

NextByte == TransmitByteFirstHalf \/ TransmitByteSecondHalf

SpecByte == InitByte /\ [][NextByte]_vars

\* rand_byte and mix_rand on their own: either is called once, in any 16-bit
\* state; mix_rand with a conversion result of either parity in ADCW.  The
\* state is 0 exactly as long as rand_byte has not run.
LfsrStates == 0 .. (Word16 - 1)
\* Results in ADCW when mix_rand is called: the two samples and the ends of
\* the 10-bit range.
MixSamples == Samples \cup {0, (2 ^ 10) - 1}

InitLfsr ==
    /\ pc \in {"adc_mix", "ds_rand"}
    /\ cpu = "run"
    /\ SREG_I = TRUE
    /\ SM = IF pc = "adc_mix" THEN "ADC" ELSE "PWR_DOWN"
    /\ PORTB = IF pc = "adc_mix" THEN {TEMP_SENSE_POWER_PIN} ELSE {}
    /\ DDRB = Pins \ {TEMP_SENSE_INPUT_DIG_PIN, TX_PIN}
    /\ DIDR0 = {TEMP_SENSE_INPUT_DIG_PIN}
    /\ ADMUX = {"REFS0", "MUX1"}
    /\ ADCSRA = IF pc = "adc_mix"
                THEN {"ADEN", "ADIE", "ADPS2", "ADPS1"}
                ELSE {"ADIE", "ADPS2", "ADPS1"}
    /\ ADSC = FALSE /\ ADIF = FALSE
    /\ ADCW \in (IF pc = "adc_mix" THEN MixSamples ELSE {CleanSample})
    /\ WDTCR = IF pc = "adc_mix"
               THEN {"WDP2", "WDP1", "WDP0"}
               ELSE {"WDTIE", "WDP2", "WDP1", "WDP0"}
    /\ WDTIF = FALSE
    /\ adc_done = 1
    /\ lfsr_state \in LfsrStates
    /\ manchester_packet = CleanPacket(1)
    /\ conv_no = IF pc = "adc_mix" THEN 2 ELSE 0
    /\ result = 0
    /\ tx_i = 0 /\ tb_b = 0 /\ tb_j = 0 /\ tb_ret = "none"
    /\ num_sleeps = 0 /\ ds_i = 0
    /\ line = <<>> /\ sent = <<>>
    /\ conv_results = IF pc = "adc_mix" THEN <<CleanSample, ADCW>>
                                        ELSE <<CleanSample, CleanSample>>
    /\ written = IF pc = "adc_mix" THEN {"node_id", "seq_no", "reading_type"}
                 ELSE {"node_id", "seq_no", "reading_type", "reading",
                       "checksum"}
    /\ last_op = IF pc = "adc_mix" THEN "deep_sleep" ELSE "transmit"
    /\ last_seq = 1
    /\ sleep_entries = 0 /\ rand_calls = 0
    /\ rand_called = (lfsr_state # 0)
    /\ cycles = 0
    /\ rand_ret = 0
    /\ mix_inputs = IF pc = "adc_mix" THEN <<CleanSample % Byte>>
                    ELSE <<CleanSample % Byte, CleanSample % Byte>>
    /\ wdt_fires = 0

NextLfsr == DoAdcMix \/ DsComputeSleeps

SpecLfsr == InitLfsr /\ [][NextLfsr]_vars

\* ======================================================== program points
MainSetupPcs == {"main_wdt", "main_pins", "main_sei"}
RtPcs == {"rt_power_up", "rt_config", "adc_clear", "adc_sleep", "adc_wait",
          "adc_mix", "rt_result", "rt_disable", "rt_power_down"}
TxPcs == {"tx_power_up", "tx_checksum", "tx_preamble", "tx_preamble_step",
          "tx_data_init", "tx_data", "tx_data_step", "tb_first", "tb_second",
          "tx_radio_off", "tx_tristate"}
DsPcs == {"ds_select", "ds_enable", "ds_rand", "ds_sleep", "ds_woken",
          "ds_disable"}
\* transmit has put the whole frame on the line
FrameDonePcs == {"tx_radio_off", "tx_tristate"}

PacketFields == {"node_id", "seq_no", "reading_type", "reading"}

\* The frame as sent, read back from the bytes handed to transmit_byte.
FrameNodeId == sent[PreambleOnes + 1 + 1]
FrameType == sent[PreambleOnes + 1 + 3]
FrameReading == sent[PreambleOnes + 1 + 4] + Byte * sent[PreambleOnes + 1 + 5]
FrameChecksum == sent[PreambleOnes + 1 + 6]

\* ================================================================ claims

\* One step of main keeps the order of the three operations.
C1_OrderStep ==
    /\ (pc # "tx_power_up" /\ pc' = "tx_power_up") =>
          /\ last_op' = "read_temperature"
          /\ Len(conv_results') = 2
          /\ written' = PacketFields
    /\ (pc # "ds_select" /\ pc' = "ds_select") => last_op' = "transmit"
    /\ (pc # "rt_power_up" /\ pc' = "rt_power_up") =>
          /\ last_op' \in {"none", "deep_sleep"}
          /\ written' = PacketFields \ {"reading"}
    /\ (pc \in DsPcs /\ pc' \notin DsPcs) => pc' = "main_build"

\* Some step is possible, unless the explored iterations are used up.
C1_NotTerminal ==
    (pc = "main_build" /\ cycles >= MaxCycles) \/ ENABLED Next

\* C1: the three operations run in the repeating order read_temperature,
\* transmit, deep_sleep: transmit is entered only right after a
\* read_temperature of the same iteration has completed and the four packet
\* fields were written, deep_sleep only after transmit has completed,
\* read_temperature only at the start or after deep_sleep; and the loop has
\* no terminal state (some step is always possible until the explored number
\* of iterations is used up).
C1_LoopOrder == [][C1_OrderStep]_vars /\ []C1_NotTerminal

\* C1 witness: transmit is entered in a later iteration, after a completed
\* read_temperature.
C1_Witness ==
    pc = "tx_power_up" /\ cycles >= 1 /\ last_op = "read_temperature"

\* seq_no changes only by the increment at the top of the loop.
C2_SeqStep ==
    manchester_packet'.seq_no # manchester_packet.seq_no =>
        /\ pc = "main_build"
        /\ manchester_packet'.seq_no =
              (manchester_packet.seq_no + 1) % (2 ^ SeqNoBits)

\* The counter starts at 0 and each frame carries its predecessor's seq_no
\* plus one.
C2_FrameSeq ==
    /\ pc \in MainSetupPcs => manchester_packet.seq_no = 0
    /\ pc \in FrameDonePcs =>
          FrameSeq = IF last_seq = NoFrame THEN 1
                     ELSE (last_seq + 1) % (2 ^ SeqNoBits)

\* C2: each frame's seq_no is the previous frame's plus one modulo
\* 2^SeqNoBits, the first frame after power-on carries 1 (the counter starts
\* at 0), and seq_no changes only by the increment at the top of the loop.
C2_SeqNo == [][C2_SeqStep]_vars /\ []C2_FrameSeq

\* C2 witness: a frame carrying seq_no 0 follows the frame carrying the
\* largest seq_no (the counter wrapped).
C2_Witness ==
    pc \in FrameDonePcs /\ last_seq = (2 ^ SeqNoBits) - 1 /\ FrameSeq = 0

\* C3: read_temperature returns the second of the two results the converter
\* delivered during the call, and the frame of that iteration carries it as
\* its reading; the first result is never reported.
C3_SecondResult ==
    /\ pc \in {"rt_disable", "rt_power_down", "main_store"} =>
          Len(conv_results) = 2 /\ result = conv_results[2]
    /\ pc \in FrameDonePcs =>
          Len(conv_results) = 2 /\ FrameReading = conv_results[2]

\* C3 witness: the converter yielded 300 then 305 and the frame carries 305.
C3_Witness ==
    /\ pc \in FrameDonePcs
    /\ conv_results = <<300, 305>>
    /\ FrameReading = 305

\* Manchester coding as the receiver's side defines it: a bit is two half
\* slots, 1 = high then low, 0 = low then high, least-significant bit first.
RECURSIVE ManchesterByte(_, _)
ManchesterByte(b, n) ==
    IF n = 0 THEN <<>>
    ELSE <<b % 2, 1 - (b % 2)>> \o ManchesterByte(b \div 2, n - 1)

RECURSIVE ManchesterBytes(_)
ManchesterBytes(bs) ==
    IF bs = <<>> THEN <<>>
    ELSE ManchesterByte(Head(bs), 8) \o ManchesterBytes(Tail(bs))

\* The mid-bit transition of bit period n of a waveform: 1 for high-to-low,
\* 0 for low-to-high, 2 where there is no transition.
DecodeBit(w, n) ==
    IF w[2 * n - 1] = 1 /\ w[2 * n] = 0 THEN 1
    ELSE IF w[2 * n - 1] = 0 /\ w[2 * n] = 1 THEN 0
    ELSE 2

RECURSIVE DecodeFrom(_, _)
DecodeFrom(w, n) ==
    IF 2 * n > Len(w) THEN 0
    ELSE DecodeBit(w, n) * (2 ^ (n - 1)) + DecodeFrom(w, n + 1)

\* C4: a complete frame is five preamble bytes (0xFF four times, then 0x7F),
\* then the packet bytes node_id, seq_no, reading_type, reading (low byte,
\* high byte), checksum, each Manchester coded with nothing in between, then
\* one more half slot that is a transition: 16 * (5 + packet length) + 1
\* half slots in all.
C4_Frame ==
    pc \in FrameDonePcs =>
        LET p == manchester_packet
            n == Len(line)
        IN  /\ sent = <<255, 255, 255, 255, 127>> \o
                      <<p.node_id, p.seq_no, p.reading_type,
                        p.reading % 256, p.reading \div 256, p.checksum>>
            /\ n = 16 * (5 + PacketLen) + 1
            /\ SubSeq(line, 1, n - 1) = ManchesterBytes(sent)
            /\ line[n] = 1 - line[n - 1]

\* C4 witness: a whole frame is on the line, in an iteration after the first.
C4_Witness ==
    pc = "tx_tristate" /\ cycles >= 1 /\ Len(line) = 16 * (5 + PacketLen) + 1

\* C5: for every byte b, transmit_byte(b) produces 8 bit periods, least
\* significant bit first; in each the line is high then low for a 1 and low
\* then high for a 0, so each period has one mid-bit transition and the
\* waveform decodes back to b.
C5_ByteWaveform ==
    LET b == sent[Len(sent)]
    IN  /\ \A n \in 1 .. (Len(line) \div 2) :
              /\ line[2 * n - 1] = Bit(b, n - 1)
              /\ line[2 * n] = 1 - Bit(b, n - 1)
        /\ pc = "tb_second" =>
              line[Len(line)] = Bit(b, (Len(line) - 1) \div 2)
        /\ pc = "tb_done" =>
              /\ Len(line) = 2 * 8
              /\ \A n \in 1 .. 8 : DecodeBit(line, n) # 2
              /\ DecodeFrom(line, 1) = b

\* C5 witness: the byte 0xA5 has been sent and decodes to itself.
C5_Witness ==
    /\ pc = "tb_done"
    /\ sent = <<165>>
    /\ line = <<1, 0, 0, 1, 1, 0, 0, 1, 0, 1, 1, 0, 0, 1, 1, 0>>

\* Program points of transmit after the checksum has been stored.
TxAfterChecksumPcs == TxPcs \ {"tx_power_up", "tx_checksum"}

\* The stored and the transmitted checksum agree with the other fields.
C6_Stored ==
    /\ pc \in TxAfterChecksumPcs =>
          manchester_packet.checksum = calculate_checksum(manchester_packet)
    /\ pc \in FrameDonePcs =>
          FrameChecksum =
              calculate_checksum([node_id |-> FrameNodeId,
                                  seq_no |-> FrameSeq,
                                  reading_type |-> FrameType,
                                  reading |-> FrameReading,
                                  checksum |-> 0])

\* No packet field is written once the checksum is stored.
C6_NoWrite ==
    (pc \in TxAfterChecksumPcs /\ pc' \in TxPcs) =>
        manchester_packet' = manchester_packet

\* C6: the checksum byte of every frame is calculate_checksum of the
\* node_id, seq_no, reading_type and reading sent in the same frame: from
\* the point the checksum is stored to the end of the frame the stored
\* checksum agrees with the other fields and no packet field is written.
C6_Checksum == []C6_Stored /\ [][C6_NoWrite]_vars

\* C6 witness: a complete frame whose checksum byte is not the one of the
\* previous frame's fields (seq_no and reading both differ from power-on).
C6_Witness ==
    /\ pc \in FrameDonePcs
    /\ cycles >= 1
    /\ FrameReading = 305
    /\ FrameChecksum # 0

\* The transmitter side and the sensor side powered down.
C7_RadioIdle ==
    /\ TX_PIN \notin DDRB
    /\ TX_PIN \notin PORTB
    /\ RADIO_POWER_PIN \notin PORTB
C7_SensorIdle ==
    /\ TEMP_SENSE_POWER_PIN \notin PORTB
    /\ "ADEN" \notin ADCSRA

\* C7: outside transmit (once main has configured the pins) the radio power
\* pin is off and the TX pin is an input with its port bit low; outside
\* read_temperature the sensor supply pin is off and the converter disabled.
\* All four hold throughout deep_sleep.
C7_PowerDown ==
    /\ (pc \notin TxPcs /\ pc \notin {"main_wdt", "main_pins"}) => C7_RadioIdle
    /\ pc \notin RtPcs => C7_SensorIdle
    /\ pc \in DsPcs => (C7_RadioIdle /\ C7_SensorIdle)

\* C7 witness: the processor is in power-down sleep inside deep_sleep after
\* a sample was taken and a frame sent.
C7_Witness ==
    /\ pc = "ds_woken" /\ cpu = "sleep" /\ SM = "PWR_DOWN"
    /\ last_op = "transmit"
    /\ sleep_entries > 1

\* Program points of deep_sleep between enabling and disabling WDTIE.
DsArmedPcs == {"ds_rand", "ds_sleep", "ds_woken", "ds_disable"}

\* C8: the watchdog interrupt is enabled only between its enabling and its
\* disabling inside deep_sleep; inside read_temperature (both conversion
\* waits included), inside transmit and in main before the first deep_sleep
\* it is disabled and the alarm handler cannot run.
C8_WdtieOnlyInSleep ==
    /\ "WDTIE" \in WDTCR => pc \in DsArmedPcs
    /\ pc \in (RtPcs \cup TxPcs \cup MainSetupPcs
                 \cup {"main_build", "main_store"}) =>
          /\ "WDTIE" \notin WDTCR
          /\ ~ENABLED WdtISR

\* C8 witness: a conversion wait of an iteration that follows a deep_sleep.
C8_Witness ==
    /\ pc = "adc_wait" /\ cpu = "sleep"
    /\ last_op = "deep_sleep"
    /\ "WDTIE" \notin WDTCR

\* C9: num_sleeps is 117 plus the low three bits of the byte rand_byte
\* returned, lies in 117..124 without overflowing 8 bits, rand_byte is called
\* once per deep_sleep, and deep_sleep has entered power-down exactly
\* num_sleeps times when it leaves the loop.
C9_SleepCount ==
    /\ pc \in {"ds_sleep", "ds_woken", "ds_disable"} =>
          /\ num_sleeps = 117 + ((lfsr_state % 256) % 8)
          /\ num_sleeps \in 117 .. 124
          /\ num_sleeps < 256
          /\ rand_calls = 1
          /\ sleep_entries <= num_sleeps
    /\ pc \in {"ds_select", "ds_enable", "ds_rand"} => rand_calls = 0
    /\ pc = "ds_sleep" => sleep_entries = ds_i
    /\ pc = "ds_woken" => sleep_entries = ds_i + 1
    /\ pc = "ds_disable" => sleep_entries = num_sleeps

\* C9 witness: deep_sleep leaves its loop after the longest count, 124.
C9_Witness ==
    pc = "ds_disable" /\ num_sleeps = 124 /\ sleep_entries = 124

\* C10 as stated: lfsr_state is non-zero in every reachable state.
C10_NeverZero == lfsr_state # 0

\* C10 amended: lfsr_state is non-zero in every reachable state from the
\* first call of rand_byte on (it is zero from power-on until that call).
C10_NonZeroAfterRand ==
    /\ rand_called => lfsr_state # 0
    /\ ~rand_called => lfsr_state = 0

\* C10 witness: mix_rand has exchanged bits 15 and 3 of a state produced by
\* rand_byte (odd sample, the two bits differ).
C10_Witness ==
    /\ rand_called
    /\ pc \in {"adc_clear", "rt_result"}
    /\ ADCW % 2 = 1
    /\ Bit(lfsr_state, 15) # Bit(lfsr_state, 3)


\* The feedback step as the claim gives it: shift left within 16 bits, the
\* new low bit the exclusive-or of bits 15, 13, 12 and 10.
C11_Xor(a, b) == IF a = b THEN 0 ELSE 1
C11_Step(s) ==
    ((s * 2) % (2 ^ 16))
      + C11_Xor(C11_Xor(C11_Xor(Bit(s, 15), Bit(s, 13)), Bit(s, 12)),
                Bit(s, 10))
C11_Guarded(s) == IF s = 0 THEN LfsrSeed ELSE s
C11_Eight(s) ==
    C11_Step(C11_Step(C11_Step(C11_Step(
    C11_Step(C11_Step(C11_Step(C11_Step(s))))))))

\* C11: for every 16-bit state s, a call of rand_byte stores the state
\* obtained from s (0xDEAD if s is zero) by eight feedback steps and returns
\* the low 8 bits of that new state; the high byte of the new state is the
\* low byte of the guarded old state.
C11_RandByte ==
    [][ pc = "ds_rand" /\ pc' # "ds_rand" =>
          /\ lfsr_state' = C11_Eight(C11_Guarded(lfsr_state))
          /\ rand_ret' = lfsr_state' % (2 ^ 8)
          /\ lfsr_state' \div (2 ^ 8) = C11_Guarded(lfsr_state) % (2 ^ 8)
          /\ num_sleeps' = (SLEEP_TIME \div WDT_DURATION) + (rand_ret' % 8)
      ]_vars

\* C11 witness: rand_byte was called in the zero state: it has stored the
\* state eight steps after 0xDEAD (0xAD84) and returned 0x84.
C11_Witness ==
    /\ pc = "ds_sleep"
    /\ lfsr_state = 44420
    /\ rand_ret = 132


\* Number of set bits of a 16-bit state, and the state with bits 15 and 3
\* exchanged.
C12_Ones(s) ==
      Bit(s, 0) + Bit(s, 1) + Bit(s, 2) + Bit(s, 3) + Bit(s, 4) + Bit(s, 5)
    + Bit(s, 6) + Bit(s, 7) + Bit(s, 8) + Bit(s, 9) + Bit(s, 10) + Bit(s, 11)
    + Bit(s, 12) + Bit(s, 13) + Bit(s, 14) + Bit(s, 15)
C12_Exchange(s) ==
    s - (Bit(s, 15) * (2 ^ 15)) - (Bit(s, 3) * (2 ^ 3))
      + (Bit(s, 3) * (2 ^ 15)) + (Bit(s, 15) * (2 ^ 3))

\* C12: for every 16-bit state s and byte x, mix_rand(x) leaves s unchanged
\* when the low bit of x is 0 or bits 15 and 3 of s are equal, and otherwise
\* flips bits 15 and 3 and no other bit; with odd x it exchanges bits 15 and
\* 3, a second application restores s, and the number of set bits never
\* changes.
C12_MixRand ==
    [][ pc = "adc_mix" /\ pc' # "adc_mix" =>
          LET x == mix_inputs'[Len(mix_inputs')]
              s == lfsr_state
              t == lfsr_state'
          IN  /\ x = ADCW % (2 ^ 8)
              /\ (x % 2 = 0 \/ Bit(s, 15) = Bit(s, 3)) => t = s
              /\ (x % 2 = 1 /\ Bit(s, 15) # Bit(s, 3)) =>
                    \A n \in 0 .. 15 :
                        Bit(t, n) = IF n \in {15, 3} THEN 1 - Bit(s, n)
                                                    ELSE Bit(s, n)
              /\ x % 2 = 1 => t = C12_Exchange(s) /\ MixRand(t, x) = s
              /\ C12_Ones(t) = C12_Ones(s)
      ]_vars

\* C12 witness: mix_rand was called with an odd byte in a state whose bits
\* 15 and 3 differed, and has left 0x8000.
C12_Witness ==
    /\ pc = "rt_result"
    /\ mix_inputs[Len(mix_inputs)] % 2 = 1
    /\ lfsr_state = 2 ^ 15


\* C13 as stated: woken inside do_adc_conversion by another signal while
\* adc_done is 0, the program can re-enter the low-power state.
C13_Resleeps ==
    (pc = "adc_wait" /\ cpu = "run" /\ adc_done = 0) =>
        ENABLED (NextWake /\ cpu' = "sleep")

\* Woken in the wait, the program changes nothing until adc_done is set:
\* every step keeps the processor awake, and the wait is left only with
\* adc_done set, for the mix_rand call.
C13_AwakeStep ==
    (pc = "adc_wait" /\ cpu = "run") =>
        /\ cpu' = "run"
        /\ pc' # pc => (adc_done # 0 /\ pc' = "adc_mix")
        /\ adc_done = 0 => (pc' = pc /\ lfsr_state' = lfsr_state)
C13_NoSleepStep ==
    (pc = "adc_wait" /\ cpu = "run" /\ adc_done = 0) =>
        ~ENABLED (NextWake /\ cpu' = "sleep")

\* C13 amended: woken inside do_adc_conversion by a signal other than
\* conversion-complete while adc_done is 0, the wait re-checks adc_done in
\* an empty loop and the processor stays awake until the ADC handler has set
\* adc_done; the low-power state is entered once per call and not re-entered.
C13_BusyWait == [][C13_AwakeStep]_vars /\ []C13_NoSleepStep

\* C13 witness: the processor runs inside the wait while adc_done is 0 and
\* the conversion is still in progress.
C13_Witness ==
    /\ pc = "adc_wait" /\ cpu = "run"
    /\ adc_done = 0
    /\ ADSC


\* Neither operation leads from a non-zero state to zero, and the guard of
\* rand_byte fires (the call finds zero) only while rand_byte has not run.
C14_Step ==
    /\ lfsr_state # 0 => lfsr_state' # 0
    /\ (pc = "ds_rand" /\ pc' # pc /\ lfsr_state = 0) => ~rand_called

\* C14: the non-zero states are closed under rand_byte and under mix_rand
\* with any byte, so in any interleaving of the two the state is non-zero
\* from the first rand_byte call on, and the reseed guard fires only on a
\* call made while no rand_byte has run.
C14_Closed == [][C14_Step]_vars /\ [](rand_called => lfsr_state # 0)

\* C14 witness: mix_rand with an odd byte has turned the non-zero state
\* 0x8000 into 0x0008.
C14_Witness ==
    /\ pc = "rt_result"
    /\ rand_called
    /\ mix_inputs[Len(mix_inputs)] % 2 = 1
    /\ lfsr_state = 2 ^ 3


\* Inside deep_sleep the firings since arming are counted off against the
\* power-down entries: no flag is pending when the alarm has just been armed
\* or when the processor is about to halt, and while it is halted for the
\* k-th time at most k firings have occurred.
C15_Counted ==
    /\ pc = "ds_rand" => (~WDTIF /\ wdt_fires = 0)
    /\ pc = "ds_sleep" => (~WDTIF /\ wdt_fires = sleep_entries)
    /\ (pc = "ds_woken" /\ cpu = "sleep") =>
           wdt_fires = (sleep_entries - 1) + (IF WDTIF THEN 1 ELSE 0)
    /\ (pc = "ds_woken" /\ cpu = "run") => wdt_fires = sleep_entries
    /\ pc = "ds_disable" =>
           (wdt_fires >= num_sleeps /\ sleep_entries = num_sleeps)
\* The k-th power-down entry finds k - 1 firings and is ended with k.
C15_EntryAndWake ==
    /\ (pc = "ds_sleep" /\ pc' = "ds_woken") =>
           (cpu' = "sleep" /\ ~WDTIF /\ wdt_fires = sleep_entries' - 1)
    /\ (pc \in DsPcs /\ cpu = "sleep" /\ cpu' = "run") =>
           (WDTIF /\ wdt_fires = sleep_entries)

C16_Step ==
    /\ (adc_done' = 1 /\ adc_done # 1) => (ADIF /\ ~ADIF' /\ pc' = pc)
    /\ (pc = "adc_sleep" /\ pc' = "adc_wait") => adc_done = 0
\* When the wait of the conv_no-th call is over, the conv_no-th conversion
\* has completed, its handler has run and ADCW holds its result.
C16_ResultReady ==
    pc = "adc_mix" =>
        /\ adc_done = 1
        /\ ~ADSC /\ ~ADIF
        /\ Len(conv_results) = conv_no
        /\ ADCW = conv_results[conv_no]

\* C16: do_adc_conversion reads the result only after the ADC handler has
\* run since adc_done was cleared in that same call: adc_done is 0 when each
\* conversion is started, the completion of the first conversion cannot end
\* the wait of the second, and only the ADC handler writes 1 to adc_done.
C16_HandlerFirst == [][C16_Step]_vars /\ []C16_ResultReady

\* C16 witness: the second wait of a read_temperature call is over with the
\* second result (different from the first) in ADCW.
C16_Witness ==
    /\ pc = "adc_mix" /\ conv_no = 2
    /\ adc_done = 1
    /\ conv_results = <<305, 300>>
    /\ ADCW = 300


\* While the program waits for a conversion whose completion has not been
\* signalled, the only step that can happen is that signal: there is no
\* timeout.
C17_NoTimeout ==
    (pc = "adc_wait" /\ adc_done = 0 /\ ~ADIF) =>
        (ADSC /\ ADIF' /\ pc' = pc /\ adc_done' = adc_done)

\* C17: if every started conversion completes and the armed alarm keeps
\* firing, every read_temperature call and every deep_sleep call returns and
\* every loop iteration puts its frame on the line, up to the explored
\* number of iterations; a wait whose conversion-complete signal does not
\* come is ended by nothing else.
C17_Progress ==
    /\ (pc = "rt_power_up") ~> (pc = "main_store")
    /\ (pc = "ds_select") ~> (pc = "main_build")
    /\ (pc = "main_build" /\ cycles < MaxCycles) ~> (pc = "tx_tristate")
    /\ <>(cycles = MaxCycles)
    /\ [][C17_NoTimeout]_vars

\* C17 witness: two iterations after power-on have completed and the third
\* begins.
C17_Witness ==
    /\ pc = "main_build"
    /\ cycles = 2
    /\ last_seq = 2
    /\ last_op = "deep_sleep"


\* Program points after the two conversions of the iteration.
C18_SampledPcs ==
    {"rt_result", "rt_disable", "rt_power_down", "main_store"}
        \cup TxPcs \cup DsPcs
\* mix_rand has been called once per conversion, in the order of the
\* conversions, each time with the low byte of the result.
C18_Mixed ==
    /\ pc \in C18_SampledPcs =>
           /\ Len(conv_results) = 2
           /\ mix_inputs = << conv_results[1] % (2 ^ 8),
                              conv_results[2] % (2 ^ 8) >>
    /\ (pc \in {"adc_clear", "adc_sleep", "adc_wait", "adc_mix"}) =>
           mix_inputs = IF conv_no = 1 THEN <<>>
                        ELSE << conv_results[1] % (2 ^ 8) >>
\* lfsr_state changes only in a mix_rand call and in the rand_byte call of
\* deep_sleep; the interrupt handlers and the hardware leave it alone.
C18_Frame ==
    /\ mix_inputs' # mix_inputs =>
           \/ pc = "adc_mix" /\ mix_inputs' = Append(mix_inputs, ADCW % (2 ^ 8))
           \/ pc = "ds_disable" /\ mix_inputs' = <<>>
    /\ lfsr_state' # lfsr_state =>
           \/ pc = "adc_mix" /\ lfsr_state' = C12_Exchange(lfsr_state)
           \/ pc = "ds_rand"
    /\ pc' = pc => lfsr_state' = lfsr_state

\* C18: each read_temperature call invokes mix_rand exactly twice, with the
\* low byte of the first and then of the second conversion result, and
\* during read_temperature, transmit and the interrupt handlers nothing
\* else changes the LFSR state.
C18_MixedTwice == []C18_Mixed /\ [][C18_Frame]_vars

\* C18 witness: read_temperature has returned after conversions 305 and 300
\* and mix_rand calls with 0x31 and 0x2C, the state being live (non-zero).
C18_Witness ==
    /\ pc = "main_store"
    /\ rand_called
    /\ conv_results = <<305, 300>>
    /\ mix_inputs = <<49, 44>>


\* C19 as stated: the checksum is recomputed only after the five preamble
\* bytes have been sent.
C19_ChecksumAfterPreamble ==
    (pc \in TxPcs /\ Len(sent) < PreambleOnes + 1) => "checksum" \notin written

C19_Prefix(a, b) == Len(a) <= Len(b) /\ \A i \in 1 .. Len(a) : a[i] = b[i]
C19_Preamble == <<OnesByte, OnesByte, OnesByte, OnesByte, SyncByte>>

\* C19 amended: within every transmit call the order is radio power-up and
\* line enable, then the recomputation and storing of the checksum, then the
\* five preamble bytes, then the packet data bytes: the checksum is
\* recomputed before the first preamble byte, and the packet is as stored
\* then while the preamble and the data bytes are sent.
C19_ChecksumBeforePreamble ==
    /\ pc = "tx_power_up" => (sent = <<>> /\ "checksum" \notin written)
    /\ pc = "tx_checksum" =>
           /\ RADIO_POWER_PIN \in PORTB /\ TX_PIN \in DDRB
           /\ sent = <<>> /\ "checksum" \notin written
    /\ pc \in TxAfterChecksumPcs =>
           /\ "checksum" \in written
           /\ manchester_packet.checksum = calculate_checksum(manchester_packet)
           /\ C19_Prefix(sent, C19_Preamble \o manchester_data(manchester_packet))
           /\ TX_PIN \in DDRB
           /\ pc # "tx_tristate" => RADIO_POWER_PIN \in PORTB
    /\ pc = "tx_data" => Len(sent) = Len(C19_Preamble) + tx_i

\* C19 witness: the checksum is stored and no preamble byte has been sent.
C19_Witness ==
    /\ pc = "tx_preamble" /\ tx_i = PreambleOnes
    /\ sent = <<>>
    /\ "checksum" \in written
    /\ manchester_packet.checksum = calculate_checksum(manchester_packet)


\* The state the first rand_byte call finds when the two conversions of the
\* first read_temperature have the low bytes a and b, starting from state s.
C20_FirstSeen(s, a, b) == MixRand(MixRand(s, a), b)

\* C20 as stated: from power-on, two sequences of sample low bytes exist for
\* which the first deep_sleep computes different num_sleeps.
C20_SampleDependent ==
    pc = "main_wdt" =>
        \E a, b \in 0 .. (Byte - 1) :
            NumSleeps(C20_FirstSeen(lfsr_state, a, b))
                # NumSleeps(C20_FirstSeen(lfsr_state, 0, 0))

\* The first rand_byte call after power-on finds state 0 whatever was
\* sampled, and leaves the state eight steps after the seed.
C20_FirstCall ==
    (pc = "ds_rand" /\ ~rand_called /\ pc' # pc) =>
        /\ lfsr_state = 0
        /\ lfsr_state' = 44420
        /\ num_sleeps' = 121
C20_FirstSleep ==
    (pc \in {"ds_sleep", "ds_woken", "ds_disable"}
        /\ cycles = 0 /\ last_seq = 1) =>
        (num_sleeps = 121 /\ lfsr_state = 44420)

\* C20 amended: the sleep jitter of the first cycle after power-on does not
\* depend on the analog samples: the state is 0 during the first
\* read_temperature, the first rand_byte call always starts from the seed
\* 0xDEAD, and the first deep_sleep always computes num_sleeps = 121.
C20_FirstJitterFixed == [][C20_FirstCall]_vars /\ []C20_FirstSleep

\* C20 witness: the first deep_sleep after power-on, after two odd samples,
\* sleeps 121 periods.
C20_Witness ==
    /\ pc = "ds_woken"
    /\ cycles = 0 /\ last_seq = 1
    /\ conv_results = <<305, 305>>
    /\ num_sleeps = 121
    /\ sleep_entries = 121

====
